---- MODULE Spec2Model ----
(***************************************************************************)
(* Concurrent audit scheduler of audit-bot: BackgroundAuditor (discovery   *)
(* loop and dispatcher), AuditorPool (rate-limited slots and the pool lock *)
(* set) and OpenAIAuditor (the audited-contracts store and its in-memory   *)
(* index).  Time is counted in milliseconds; timers (setTimeout) may fire  *)
(* at any point of the clock, Date.now() is the variable now.              *)
(***************************************************************************)
EXTENDS Integers, Sequences, FiniteSets, TLC

\* ---------------------------------------------------------------- bounds
NumIds == 2
NumAuditors == 2
MaxLoops == 2
MaxClockSteps == 2
MaxTicks == 3
MaxAddresses == 5
MaxFileIds == 2
MaxCount == 3

\* ------------------------------------------------------ program constants
minDelayBetweenAudits == 1000
TimerStep == 500
StartTime == minDelayBetweenAudits
staggerDelay == 500
checkInterval == 5000

Ids == 1..NumIds
Slots == 0..(NumAuditors - 1)
Loops == 1..MaxLoops
MaxNow == StartTime + MaxClockSteps * TimerStep
NoSlot == -1
maxConcurrentAudits == NumAuditors

\* Store record values: absent, successful without / with findings, failed
\* with a rate-limit-class message, failed with any other message.
Records == {"none", "clean", "vuln", "failed429", "failedOther"}
Successful == {"clean", "vuln"}
Failed == {"failed429", "failedOther"}

VARIABLES
  now,                  \* Date.now()
  sources,              \* ids that have a file index_address.sol in data/sources
  noMatch,              \* ids whose source fails the enabled pre-audit regex check
  store,                \* data/audited-contracts.json, id -> record
  overflow,             \* ids with a record in some audited-contracts-N.json
  auditedContracts,     \* OpenAIAuditor.auditedContracts, per auditor
  auditingContracts,    \* OpenAIAuditor.auditingContracts, per auditor
  poolAuditingContracts,\* AuditorPool.auditingContracts
  currentlyAuditing,    \* BackgroundAuditor.currentlyAuditing (array)
  isAvailable,          \* auditors[k].isAvailable
  lastUsed,             \* auditors[k].lastUsed
  totalAudits,          \* auditors[k].totalAudits
  isRunning,            \* BackgroundAuditor.isRunning
  loopPc,               \* position of each auditLoop activation
  batch,                \* contractsToAudit not yet launched, per loop
  task,                 \* position of each launched auditContract call
  restarted,            \* the process was killed and constructed again
  killedAfterAnalyze,   \* ids whose task was killed between Analyze and the record write
  endedWithSlot,        \* ids whose last task acquired a slot and has ended
  call                  \* arguments and outcome of the last observed call

vars == <<now, sources, noMatch, store, overflow, auditedContracts,
          auditingContracts, poolAuditingContracts, currentlyAuditing,
          isAvailable, lastUsed, totalAudits, isRunning, loopPc, batch, task,
          restarted, killedAfterAnalyze, endedWithSlot, call>>

NoTask == [pc |-> "none", slot |-> NoSlot]
NoCall == [id |-> 0, rec |-> "none"]

\* ---------------------------------------------------------------- helpers
Range(s) == {s[k] : k \in 1..Len(s)}

Min(a, b) == IF a < b THEN a ELSE b
Max(a, b) == IF a > b THEN a ELSE b

\* Array.prototype.slice(0, end): a negative end counts from the end.
slice(s, end) ==
  LET e == IF end < 0 THEN Max(Len(s) + end, 0) ELSE Min(end, Len(s))
  IN  SubSeq(s, 1, e)

\* indexOf + splice(index, 1): removes the first occurrence only.
RECURSIVE RemoveFirst(_, _)
RemoveFirst(s, x) ==
  IF s = <<>> THEN <<>>
  ELSE IF Head(s) = x THEN Tail(s)
  ELSE <<Head(s)>> \o RemoveFirst(Tail(s), x)

RECURSIVE SortedSeq_Unordered(_)
\* Mutation: the directory listing is taken without the sort, here with the
\* highest index first.
SortedSeq_Unordered(S) ==
  IF S = {} THEN <<>>
  ELSE LET m == CHOOSE x \in S : \A y \in S : x >= y
       IN  <<m>> \o SortedSeq_Unordered(S \ {m})

\* Ascending sequence of a set of integers (sort by file index).
RECURSIVE SortedSeq(_)
SortedSeq(S) ==
  IF S = {} THEN <<>>
  ELSE LET m == CHOOSE x \in S : \A y \in S : x <= y
       IN  <<m>> \o SortedSeq(S \ {m})

\* The mutable program state handed through the synchronous code paths, as
\* seen by code that runs when Date.now() is t.
CurAt(t) ==
  [ac |-> auditedContracts, ag |-> auditingContracts,
   pl |-> poolAuditingContracts, ca |-> currentlyAuditing,
   av |-> isAvailable, lu |-> lastUsed, ta |-> totalAudits, st |-> store,
   src |-> sources, tk |-> task, es |-> endedWithSlot,
   ka |-> killedAfterAnalyze, lp |-> loopPc, t |-> t]

Cur == CurAt(now)

Apply(S) ==
  /\ auditedContracts' = S.ac
  /\ auditingContracts' = S.ag
  /\ poolAuditingContracts' = S.pl
  /\ currentlyAuditing' = S.ca
  /\ isAvailable' = S.av
  /\ lastUsed' = S.lu
  /\ totalAudits' = S.ta
  /\ store' = S.st
  /\ sources' = S.src
  /\ task' = S.tk
  /\ endedWithSlot' = S.es
  /\ killedAfterAnalyze' = S.ka
  /\ loopPc' = S.lp

\* ------------------------------------------------------------ Dedup Store
\* The id has a truthy entry in the primary file or in an overflow file.
\* Mutation: audited-contracts.json is never re-read after the Set was loaded.
InPrimary_NotRead(S, i) == FALSE

\* Mutation: an entry with failed: true does not count as audited.
InPrimary_SkipsFailed(S, i) == S.st[i] \notin Failed \cup {"none"}

\* The primary file audited-contracts.json has a truthy entry for the id.
InPrimary(S, i) == S.st[i] # "none"
\* Mutation: the split files audited-contracts-N.json are never read.
InOverflow_NotRead(i) == FALSE

InOverflow(i) == i \in overflow
InFile(S, i) == InPrimary(S, i) \/ InOverflow(i)

\* Mutation: isAudited without the fallback to the files.
isAudited_MemoryOnly(S, a, i) == i \in S.ac[a]

\* OpenAIAuditor.isAudited: in-memory set first, then the files.
isAudited(S, a, i) == i \in S.ac[a] \/ InFile(S, i)

\* The side effect of isAudited: a hit in a file is cached in the set.
isAuditedEffect(S, a, i) ==
  IF i \notin S.ac[a] /\ InFile(S, i)
  THEN [S EXCEPT !.ac[a] = @ \cup {i}]
  ELSE S

\* AuditorPool.isAudited consults auditor 0 only.
poolIsAudited(S, i) == isAudited(S, 0, i)
poolIsAuditedEffect(S, i) == isAuditedEffect(S, 0, i)

\* OpenAIAuditor.loadAuditedContracts: keys of the primary and split files.
loadAuditedContracts == {i \in Ids : store[i] # "none" \/ InOverflow(i)}

\* Mutation: the file is rewritten with the new entry alone.
mergeRecord_Alone(st, i, rec) == [j \in Ids |-> IF j = i THEN rec ELSE "none"]

\* Mutation: a file in the array format is read as an empty object.
parseStore_ObjectOnly(st) ==
  [j \in Ids |-> IF st[j] = "legacy" THEN "none" ELSE st[j]]

\* recordAuditResult's reading of audited-contracts.json: an array of ids
\* (entries "legacy") becomes an object with the entry
\* {hasVulnerabilities: false, vulnerabilities: []} for each id ("migrated").
parseStore(st) ==
  [j \in Ids |-> IF st[j] = "legacy" THEN "migrated" ELSE st[j]]

\* recordAuditResult's read-merge-rewrite: the parsed content of
\* audited-contracts.json with the entry of the id replaced, written back
\* whole, all with synchronous fs calls.
mergeRecord(st, i, rec) == [parseStore(st) EXCEPT ![i] = rec]

\* OpenAIAuditor.recordAuditResult(address, hasVulnerabilities, names, failed, msg)
\* on auditor a; rec is the record the call would write, written tells
\* whether fs.writeFileSync succeeds.  When it throws, the id is already in
\* the Set, the file is unchanged, and the catch logs the error and returns.
recordAuditResult(S, a, i, rec, written) ==
  IF S.st[i] # "none" /\ rec \notin Failed /\ S.st[i] \notin Failed
  THEN S
  ELSE IF written
       THEN [S EXCEPT !.st = mergeRecord(@, i, rec), !.ac[a] = @ \cup {i}]
       ELSE [S EXCEPT !.ac[a] = @ \cup {i}]

\* ---------------------------------------------------------- Resource Pool
auditors == [k \in 1..NumAuditors |-> k - 1]

\* Mutation: the filter ignores the time since lastUsed.
Eligible_NoDelay(S, s) == S.av[s]

Eligible(S, s) ==
  S.av[s] /\ S.t - S.lu[s] >= minDelayBetweenAudits

availableAuditors(S) == SelectSeq(auditors, LAMBDA s : Eligible(S, s))

RECURSIVE reduceLeast(_, _, _)
reduceLeast(least, rest, lu) ==
  IF rest = <<>> THEN least
  ELSE reduceLeast(IF lu[Head(rest)] < lu[least] THEN Head(rest) ELSE least,
                   Tail(rest), lu)

\* Mutation: the first eligible slot of the array is taken.
leastRecentlyUsed_First(av, lu) == Head(av)

\* availableAuditors.reduce(...) without an initial value.
leastRecentlyUsed(av, lu) == reduceLeast(Head(av), Tail(av), lu)

\* One pass of the while loop of getAvailableAuditor: the slot it returns,
\* or NoSlot when the caller has to wait.
getAvailableAuditor(S) ==
  LET av == availableAuditors(S)
  IN  IF Len(av) > 0 THEN leastRecentlyUsed(av, S.lu) ELSE NoSlot

\* Mutation: the acquisition does not stamp the slot.
acquire_NoStamp(S, s) == [S EXCEPT !.av[s] = FALSE]

\* Mutation: the slot is not marked busy.
acquire_NotBusy(S, s) == [S EXCEPT !.lu[s] = S.t]

acquire(S, s) == [S EXCEPT !.av[s] = FALSE, !.lu[s] = S.t]

\* Mutation: the release does not free the slot.
releaseAuditor_Noop(S, s) == S

\* Mutation: the release also stamps the slot's lastUsed.
releaseAuditor_Stamps(S, s) ==
  IF s \in Slots
  THEN [S EXCEPT !.av[s] = TRUE, !.ta[s] = @ + 1, !.lu[s] = S.t]
  ELSE S

releaseAuditor(S, s) ==
  IF s \in Slots THEN [S EXCEPT !.av[s] = TRUE, !.ta[s] = @ + 1] ELSE S

\* ------------------------------------------------------------- Dispatcher
\* Mutation: the loop waits for one of its tasks only (Promise.race).
allSettled_FirstOnly(S, l) ==
  IF S.lp[l] = "awaiting" /\ \E i \in Ids : S.tk[l, i].pc = "none"
  THEN [S EXCEPT !.lp[l] = "sleeping"]
  ELSE S

\* Promise.allSettled(auditPromises) of loop l: once the loop waits for its
\* tasks and the last of them has ended, checkAndAuditContracts returns and
\* auditLoop goes to sleep(checkInterval).
allSettled(S, l) ==
  IF S.lp[l] = "awaiting" /\ \A i \in Ids : S.tk[l, i].pc = "none"
  THEN [S EXCEPT !.lp[l] = "sleeping"]
  ELSE S

\* The finally blocks of a task that holds slot s: AuditorPool.auditContract
\* deletes the pool lock and releases the slot, BackgroundAuditor.auditContract
\* removes the id from currentlyAuditing.
FinishPool(S, l, i, s) ==
  LET S1 == [S EXCEPT !.pl = @ \ {i}]
      S2 == releaseAuditor(S1, s)
  IN  allSettled([S2 EXCEPT !.ca = RemoveFirst(@, i), !.tk[l, i] = NoTask,
                            !.es = @ \cup {i}], l)

\* Mutation: a skipped task also runs the finally of the pool and deletes
\* the lock entry of its id.
FinishSkipped_Unlocks(S, l, i) ==
  [S EXCEPT !.ca = RemoveFirst(@, i), !.tk[l, i] = NoTask, !.pl = @ \ {i}]

\* A task skipped by the pool before it took the lock: only the finally of
\* BackgroundAuditor.auditContract runs.
FinishSkipped(S, l, i) ==
  [S EXCEPT !.ca = RemoveFirst(@, i), !.tk[l, i] = NoTask]

\* Mutation: the error is thrown on and ends the auditLoop activation that
\* launched the task.
catchError_Rethrows(S, l, i, s, rec, written) ==
  LET S1 == IF rec = "failed429" THEN S ELSE [S EXCEPT !.ac[s] = @ \ {i}]
      S2 == [S1 EXCEPT !.ag[s] = @ \ {i}]
      S3 == recordAuditResult(S2, s, i, rec, written)
  IN  [FinishPool(S3, l, i, s) EXCEPT !.lp[l] = "none"]

\* The catch block of OpenAIAuditor.auditContract on auditor s.
catchError(S, l, i, s, rec, written) ==
  LET S1 == IF rec = "failed429" THEN S ELSE [S EXCEPT !.ac[s] = @ \ {i}]
      S2 == [S1 EXCEPT !.ag[s] = @ \ {i}]
      S3 == recordAuditResult(S2, s, i, rec, written)
  IN  FinishPool(S3, l, i, s)

\* The synchronous end of a successful audit: unlink the source file, record
\* the result, leave the auditing set, return through the finally blocks.
successTail(S, l, i, s, rec, written) ==
  LET S1 == [S EXCEPT !.src = @ \ {i}]
      S2 == recordAuditResult(S1, s, i, rec, written)
      S3 == [S2 EXCEPT !.ag[s] = @ \ {i}]
  IN  FinishPool(S3, l, i, s)

\* OpenAIAuditor.auditContract on auditor s up to the OpenAI request.
OpenAIAuditor_auditContract(S, l, i, s) ==
  IF i \in S.ac[s] THEN FinishPool(S, l, i, s)
  ELSE IF i \in S.ag[s] THEN FinishPool(S, l, i, s)
  ELSE IF isAudited(S, s, i) THEN FinishPool(isAuditedEffect(S, s, i), l, i, s)
  ELSE LET S1 == [S EXCEPT !.ag[s] = @ \cup {i}]
       IN  IF i \notin S1.src THEN catchError(S1, l, i, s, "failedOther", TRUE)
           ELSE IF i \in noMatch
                THEN FinishPool([S1 EXCEPT !.ag[s] = @ \ {i}], l, i, s)
                ELSE [S1 EXCEPT !.ac[s] = @ \cup {i},
                                !.tk[l, i] = [pc |-> "analyzing", slot |-> s]]

\* AuditorPool.auditContract after getAvailableAuditor returned slot s.
AuditorPool_afterAcquire(S, l, i, s) ==
  IF poolIsAudited(S, i)
  THEN FinishPool(poolIsAuditedEffect(S, i), l, i, s)
  ELSE OpenAIAuditor_auditContract(S, l, i, s)

\* One pass of getAvailableAuditor for a task that holds the pool lock.
tryAcquire(S, l, i) ==
  LET s == getAvailableAuditor(S)
  IN  IF s = NoSlot
      THEN [S EXCEPT !.tk[l, i] = [pc |-> "waiting", slot |-> NoSlot]]
      ELSE AuditorPool_afterAcquire(acquire(S, s), l, i, s)

\* Mutation: the pool does not look at its lock set.
PoolLocked_Unchecked(S, i) == FALSE

\* AuditorPool.auditContract: the id is in the pool's lock set.
PoolLocked(S, i) == i \in S.pl

\* AuditorPool.auditContract up to its first suspension.
AuditorPool_auditContract(S, l, i) ==
  IF poolIsAudited(S, i) THEN FinishSkipped(poolIsAuditedEffect(S, i), l, i)
  ELSE IF PoolLocked(S, i) THEN FinishSkipped(S, l, i)
  ELSE tryAcquire([S EXCEPT !.pl = @ \cup {i}, !.ka = @ \ {i},
                            !.es = @ \ {i}], l, i)

\* The first statement of BackgroundAuditor.auditContract:
\* this.currentlyAuditing.push(contractAddress).
pushCurrentlyAuditing(S, i) == [S EXCEPT !.ca = Append(@, i)]

\* BackgroundAuditor.auditContract up to its first suspension.
BackgroundAuditor_auditContract(S, l, i) ==
  AuditorPool_auditContract(pushCurrentlyAuditing(S, i), l, i)

\* --------------------------------------------------------- Discovery Loop
\* The filter of checkAndAuditContracts caches file hits in auditor 0.
discoveryCache(S) ==
  [S EXCEPT !.ac[0] = @ \cup {i \in S.src : InFile(S, i)}]

\* Mutation: the filter does not look at currentlyAuditing.
includesCurrentlyAuditing_Unchecked(S, i) == FALSE

\* this.currentlyAuditing.includes(contractAddress)
includesCurrentlyAuditing(S, i) == i \in Range(S.ca)

unauditedFiles(S) ==
  SelectSeq(SortedSeq(S.src),
            LAMBDA i : ~(poolIsAudited(S, i) \/ includesCurrentlyAuditing(S, i)))

contractsToAudit(S) ==
  slice(unauditedFiles(S), maxConcurrentAudits - Len(S.ca))

\* checkAndAuditContracts of loop l up to its first suspension, run when
\* Date.now() is t.
checkAndAuditContracts(l, t) ==
  LET S0 == CurAt(t)
      cta == contractsToAudit(S0)
      S1 == discoveryCache(S0)
  IN  IF cta = <<>>
      THEN /\ Apply([S1 EXCEPT !.lp[l] = "sleeping"])
           /\ batch' = [batch EXCEPT ![l] = <<>>]
      ELSE /\ Apply(BackgroundAuditor_auditContract(
                      [S1 EXCEPT !.lp[l] = "stagger"], l, Head(cta)))
           /\ batch' = [batch EXCEPT ![l] = Tail(cta)]

FreeLoops == {l \in Loops : loopPc[l] = "none"}

\* BackgroundAuditor.start(): a new auditLoop activation runs its first tick.
Start ==
  /\ ~isRunning
  /\ FreeLoops # {}
  /\ isRunning' = TRUE
  /\ LET l == CHOOSE x \in FreeLoops : \A y \in FreeLoops : x <= y
     IN  checkAndAuditContracts(l, now)
  /\ UNCHANGED <<now, noMatch, overflow, restarted, call>>

\* BackgroundAuditor.stop()
Stop ==
  /\ isRunning
  /\ isRunning' = FALSE
  /\ UNCHANGED <<now, sources, noMatch, store, overflow, auditedContracts,
                 auditingContracts, poolAuditingContracts, currentlyAuditing,
                 isAvailable, lastUsed, totalAudits, loopPc, batch, task, restarted,
                 killedAfterAnalyze, endedWithSlot, call>>

\* Mutation: the for loop never looks at isRunning.
loopBreaks_Never == FALSE

\* `if (!this.isRunning) break` at the head of the for loop over the batch.
loopBreaks == ~isRunning

\* The code of loop l that follows its 500 ms stagger sleep, run when
\* Date.now() is t: launch the next item, or leave the for loop and wait for
\* the launched tasks.
afterStagger(l, t) ==
  /\ loopPc[l] = "stagger"
  /\ IF batch[l] = <<>> \/ loopBreaks
     THEN /\ Apply(allSettled([CurAt(t) EXCEPT !.lp[l] = "awaiting"], l))
          /\ batch' = [batch EXCEPT ![l] = <<>>]
     ELSE /\ Apply(BackgroundAuditor_auditContract(CurAt(t), l, Head(batch[l])))
          /\ batch' = [batch EXCEPT ![l] = Tail(@)]
  /\ UNCHANGED <<noMatch, overflow, isRunning, restarted, call>>

\* The code of loop l that follows sleep(checkInterval), run when Date.now()
\* is t: the next iteration of auditLoop.
afterSleep(l, t) ==
  /\ loopPc[l] = "sleeping"
  /\ IF isRunning
     THEN checkAndAuditContracts(l, t)
     ELSE /\ Apply([Cur EXCEPT !.lp[l] = "none"])
          /\ UNCHANGED batch
  /\ UNCHANGED <<noMatch, overflow, isRunning, restarted, call>>

\* The stagger sleep of loop l is over, at some point of the clock.
StaggerWake(l) == afterStagger(l, now) /\ UNCHANGED now

\* sleep(checkInterval) of loop l is over, at some point of the clock.
LoopWake(l) == afterSleep(l, now) /\ UNCHANGED now

\* ------------------------------------------------------------------ tasks
\* The 1000 ms wait inside getAvailableAuditor is over: try again.
WaitRetry(l, i) ==
  /\ task[l, i].pc = "waiting"
  /\ Apply(tryAcquire(Cur, l, i))
  /\ UNCHANGED <<now, noMatch, overflow, isRunning, batch, restarted, call>>

\* The OpenAI request returns a verdict without findings.
AnalyzeClean(l, i) ==
  /\ task[l, i].pc = "analyzing"
  /\ Apply(successTail(Cur, l, i, task[l, i].slot, "clean", TRUE))
  /\ UNCHANGED <<now, noMatch, overflow, isRunning, batch, restarted, call>>

\* The OpenAI request returns findings: the task awaits sendVulnerabilityAlert.
AnalyzeVuln(l, i) ==
  /\ task[l, i].pc = "analyzing"
  /\ task' = [task EXCEPT ![l, i].pc = "alerting"]
  /\ UNCHANGED <<now, sources, noMatch, store, overflow, auditedContracts,
                 auditingContracts, poolAuditingContracts, currentlyAuditing,
                 isAvailable, lastUsed, totalAudits, isRunning, loopPc, batch, restarted,
                 killedAfterAnalyze, endedWithSlot, call>>

AlertDone(l, i) ==
  /\ task[l, i].pc = "alerting"
  /\ Apply(successTail(Cur, l, i, task[l, i].slot, "vuln", TRUE))
  /\ UNCHANGED <<now, noMatch, overflow, isRunning, batch, restarted, call>>

\* The OpenAI request (or the parsing of its answer) throws.
AnalyzeThrows(l, i, rec) ==
  /\ task[l, i].pc = "analyzing"
  /\ Apply(catchError(Cur, l, i, task[l, i].slot, rec, TRUE))
  /\ UNCHANGED <<now, noMatch, overflow, isRunning, batch, restarted, call>>

\* The clock is read only through now - lastUsed, so its advance is
\* modelled while some slot is still inside its delay window.
ClockTick ==
  /\ now < MaxNow
  /\ \E s \in Slots : now - lastUsed[s] < minDelayBetweenAudits
  /\ now' = now + TimerStep
  /\ UNCHANGED <<sources, noMatch, store, overflow, auditedContracts,
                 auditingContracts, poolAuditingContracts, currentlyAuditing,
                 isAvailable, lastUsed, totalAudits, isRunning, loopPc, batch,
                 task, restarted, killedAfterAnalyze, endedWithSlot, call>>

\* -------------------------------------------------------- kill and restart
\* The process is killed and constructed again: every in-memory structure
\* is rebuilt, the files stay.  unlinked are the source files removed by the
\* task that was running when the process died, killed the ids whose Analyze
\* had returned without their record being written.
Restart(unlinked, killed) ==
  /\ restarted' = TRUE
  /\ sources' = sources \ unlinked
  /\ auditedContracts' = [a \in Slots |-> loadAuditedContracts]
  /\ auditingContracts' = [a \in Slots |-> {}]
  /\ poolAuditingContracts' = {}
  /\ currentlyAuditing' = <<>>
  /\ isAvailable' = [a \in Slots |-> TRUE]
  /\ lastUsed' = [a \in Slots |-> 0]
  /\ totalAudits' = [a \in Slots |-> 0]
  /\ isRunning' = FALSE
  /\ loopPc' = [l \in Loops |-> "none"]
  /\ batch' = [l \in Loops |-> <<>>]
  /\ task' = [t \in Loops \X Ids |-> NoTask]
  /\ killedAfterAnalyze' = killed
  /\ endedWithSlot' = {}
  /\ UNCHANGED <<now, noMatch, store, overflow, call>>

Alerting == {i \in Ids : \E l \in Loops : task[l, i].pc = "alerting"}

\* Killed while every task is suspended.
Kill == Restart({}, Alerting)

\* Killed inside the synchronous end of task (l, i), after Analyze returned
\* and before recordAuditResult wrote the file; unlinked tells whether
\* fs.unlinkSync had already run.
KillInTail(l, i, unlinked) ==
  /\ task[l, i].pc \in {"analyzing", "alerting"}
  /\ Restart(IF unlinked THEN {i} ELSE {}, Alerting \cup {i})

Init ==
  /\ now = StartTime
  /\ sources = Ids
  /\ overflow \in {{}, {NumIds}}
  /\ noMatch \in SUBSET (Ids \ overflow)
  /\ store = [i \in Ids |-> "none"]
  /\ auditedContracts = [a \in Slots |-> loadAuditedContracts]
  /\ auditingContracts = [a \in Slots |-> {}]
  /\ poolAuditingContracts = {}
  /\ currentlyAuditing = <<>>
  /\ isAvailable = [a \in Slots |-> TRUE]
  /\ lastUsed = [a \in Slots |-> 0]
  /\ totalAudits = [a \in Slots |-> 0]
  /\ isRunning = FALSE
  /\ loopPc = [l \in Loops |-> "none"]
  /\ batch = [l \in Loops |-> <<>>]
  /\ task = [t \in Loops \X Ids |-> NoTask]
  /\ restarted = FALSE
  /\ killedAfterAnalyze = {}
  /\ endedWithSlot = {}
  /\ call = NoCall

\* Steps of the loops, of the clock and of the tasks that hold a slot.
StepHeld ==
  \/ ClockTick
  \/ \E l \in Loops : StaggerWake(l)
  \/ \E l \in Loops : LoopWake(l)
  \/ \E l \in Loops, i \in Ids : AnalyzeClean(l, i)
  \/ \E l \in Loops, i \in Ids : AnalyzeVuln(l, i)
  \/ \E l \in Loops, i \in Ids : AlertDone(l, i)
  \/ \E l \in Loops, i \in Ids, rec \in Failed : AnalyzeThrows(l, i, rec)

\* Steps of the loops, the tasks and the clock.
Step ==
  \/ StepHeld
  \/ \E l \in Loops, i \in Ids : WaitRetry(l, i)

Killed ==
  \/ Kill
  \/ \E l \in Loops, i \in Ids, u \in BOOLEAN : KillInTail(l, i, u)

\* The scheduler with start(), stop() and kills of the process.
Next ==
  \/ Start
  \/ Stop
  \/ Step
  \/ Killed

Spec == Init /\ [][Next]_vars

\* The default configuration: ENABLE_PRE_AUDIT_REGEX_CHECK is off and no
\* split file audited-contracts-N.json exists.
InitDefault == Init /\ noMatch = {} /\ overflow = {}

TypeOK ==
  /\ now \in StartTime..MaxNow
  /\ sources \subseteq Ids
  /\ store \in [Ids -> Records]
  /\ \A a \in Slots : auditedContracts[a] \subseteq Ids
  /\ \A a \in Slots : auditingContracts[a] \subseteq Ids
  /\ poolAuditingContracts \subseteq Ids
  /\ Range(currentlyAuditing) \subseteq Ids
  /\ \A t \in Loops \X Ids : task[t].pc \in {"none", "waiting", "analyzing", "alerting"}
  /\ \A l \in Loops : loopPc[l] \in {"none", "stagger", "awaiting", "sleeping"}


\* ------------------------------------------------ direct calls on the store
\* recordAuditResult called directly on a store with arbitrary content (the
\* store API as used by tests and by a second writer).
InitStore ==
  /\ now = StartTime
  /\ sources = Ids
  /\ noMatch = {}
  /\ store \in [Ids -> Records]
  /\ overflow = {}
  /\ auditedContracts = [a \in Slots |-> loadAuditedContracts]
  /\ auditingContracts = [a \in Slots |-> {}]
  /\ poolAuditingContracts = {}
  /\ currentlyAuditing = <<>>
  /\ isAvailable = [a \in Slots |-> TRUE]
  /\ lastUsed = [a \in Slots |-> 0]
  /\ totalAudits = [a \in Slots |-> 0]
  /\ isRunning = FALSE
  /\ loopPc = [l \in Loops |-> "none"]
  /\ batch = [l \in Loops |-> <<>>]
  /\ task = [t \in Loops \X Ids |-> NoTask]
  /\ restarted = FALSE
  /\ killedAfterAnalyze = {}
  /\ endedWithSlot = {}
  /\ call = NoCall

WriteRecord(a, i, rec) ==
  /\ call' = [id |-> i, rec |-> rec]
  /\ Apply(recordAuditResult(Cur, a, i, rec, TRUE))
  /\ UNCHANGED <<now, noMatch, overflow, isRunning, batch, restarted>>

NextStore ==
  \E a \in Slots, i \in Ids, rec \in Records \ {"none"} : WriteRecord(a, i, rec)

SpecStore == InitStore /\ [][NextStore]_vars

\* ------------------------------------------------------ write I/O errors
\* fs.writeFileSync is called once in recordAuditResult.
writeFileSyncCalls == 1

\* What auditContract returns: an object with an error field from its catch
\* block, an object without one after recordAuditResult returned.
auditResult(rec) == IF rec \in Failed THEN "error" ELSE "ok"

\* The request of task (l, i) ends with outcome rec, and the write of its
\* record throws (disk full, file not writable).
EndsWithWriteError(l, i, rec) ==
  /\ task[l, i].pc = (IF rec = "vuln" THEN "alerting" ELSE "analyzing")
  /\ Apply(IF rec \in Failed
           THEN catchError(Cur, l, i, task[l, i].slot, rec, FALSE)
           ELSE successTail(Cur, l, i, task[l, i].slot, rec, FALSE))
  /\ call' = [id |-> i, rec |-> rec, writes |-> writeFileSyncCalls,
              result |-> auditResult(rec)]
  /\ UNCHANGED <<now, noMatch, overflow, isRunning, batch, restarted>>

\* The scheduler started once, with writes that may fail.
NextIo ==
  \/ Start
  \/ Step
  \/ \E l \in Loops, i \in Ids, rec \in Records \ {"none"} :
       EndsWithWriteError(l, i, rec)

SpecIo == Init /\ [][NextIo]_vars

\* ------------------------------------------- a second process on the files
\* Another instance of the bot, on the same data directory, ends an audit of
\* id i with outcome rec: it removes the source after a successful analysis
\* and writes the record with its own recordAuditResult.  It audits only ids
\* that have a source and no record.  This instance's memory is untouched.
OtherProcessRecords(i, rec) ==
  /\ i \in sources
  /\ store[i] = "none"
  /\ store' = [store EXCEPT ![i] = rec]
  /\ sources' = IF rec \in Successful THEN sources \ {i} ELSE sources
  /\ UNCHANGED <<now, noMatch, overflow, auditedContracts, auditingContracts,
                 poolAuditingContracts, currentlyAuditing, isAvailable,
                 lastUsed, totalAudits, isRunning, loopPc, batch, task,
                 restarted, killedAfterAnalyze, endedWithSlot, call>>

NextShared ==
  \/ Start
  \/ StepHeld
  \/ \E i \in Ids, rec \in Records \ {"none"} : OtherProcessRecords(i, rec)

SpecShared == InitDefault /\ [][NextShared]_vars

\* ------------------------------------------------------ rate-limit errors
\* The request of task (l, i) throws an error of the rate-limit class; the
\* slot and the time of the error are remembered.
RateLimited(l, i) ==
  /\ task[l, i].pc = "analyzing"
  /\ Apply(catchError(Cur, l, i, task[l, i].slot, "failed429", TRUE))
  /\ call' = [id |-> i, rec |-> "failed429", slot |-> task[l, i].slot,
              at |-> now]
  /\ UNCHANGED <<now, noMatch, overflow, isRunning, batch, restarted>>

\* The scheduler started once; rate-limit errors are observed.
NextLimit ==
  \/ Start
  \/ ClockTick
  \/ \E l \in Loops : StaggerWake(l)
  \/ \E l \in Loops : LoopWake(l)
  \/ \E l \in Loops, i \in Ids : AnalyzeClean(l, i)
  \/ \E l \in Loops, i \in Ids : AnalyzeVuln(l, i)
  \/ \E l \in Loops, i \in Ids : AlertDone(l, i)
  \/ \E l \in Loops, i \in Ids : AnalyzeThrows(l, i, "failedOther")
  \/ \E l \in Loops, i \in Ids : RateLimited(l, i)
  \/ \E l \in Loops, i \in Ids : WaitRetry(l, i)

SpecLimit == Init /\ [][NextLimit]_vars

\* --------------------------------------------------------- the alert hook
\* The ids for which sendVulnerabilityAlert was invoked, and those for which
\* it was invoked more than once, over the runs of the process.
alerted == IF call.id = 0 THEN {} ELSE call.alerted
alertedAgain == IF call.id = 0 THEN {} ELSE call.again

\* The OpenAI request of task (l, i) returns findings and the task invokes
\* sendVulnerabilityAlert.
AlertInvoked(l, i) ==
  /\ task[l, i].pc = "analyzing"
  /\ task' = [task EXCEPT ![l, i].pc = "alerting"]
  /\ call' = [id |-> i, rec |-> "vuln", alerted |-> alerted \cup {i},
              again |-> alertedAgain \cup (alerted \cap {i})]
  /\ UNCHANGED <<now, sources, noMatch, store, overflow, auditedContracts,
                 auditingContracts, poolAuditingContracts, currentlyAuditing,
                 isAvailable, lastUsed, totalAudits, isRunning, loopPc, batch,
                 restarted, killedAfterAnalyze, endedWithSlot>>

\* The scheduler started once after every construction, with kills; the
\* invocations of the alert hook are observed.
NextAlert ==
  \/ Start
  \/ ClockTick
  \/ \E l \in Loops : StaggerWake(l)
  \/ \E l \in Loops : LoopWake(l)
  \/ \E l \in Loops, i \in Ids : AnalyzeClean(l, i)
  \/ \E l \in Loops, i \in Ids : AlertInvoked(l, i)
  \/ \E l \in Loops, i \in Ids : AlertDone(l, i)
  \/ \E l \in Loops, i \in Ids, rec \in Failed : AnalyzeThrows(l, i, rec)
  \/ \E l \in Loops, i \in Ids : WaitRetry(l, i)
  \/ Killed

SpecAlert == Init /\ [][NextAlert]_vars

\* ------------------------------------------- a store in the array format
\* The process is constructed on a file audited-contracts.json written by an
\* older version as an array of ids; legacy is the set of ids it lists.
\* Their source files are still in data/sources.
InitLegacy(legacy) ==
  /\ now = StartTime
  /\ sources = Ids
  /\ noMatch = {}
  /\ overflow = {}
  /\ store = [i \in Ids |-> IF i \in legacy THEN "legacy" ELSE "none"]
  /\ auditedContracts = [a \in Slots |-> loadAuditedContracts]
  /\ auditingContracts = [a \in Slots |-> {}]
  /\ poolAuditingContracts = {}
  /\ currentlyAuditing = <<>>
  /\ isAvailable = [a \in Slots |-> TRUE]
  /\ lastUsed = [a \in Slots |-> 0]
  /\ totalAudits = [a \in Slots |-> 0]
  /\ isRunning = FALSE
  /\ loopPc = [l \in Loops |-> "none"]
  /\ batch = [l \in Loops |-> <<>>]
  /\ task = [t \in Loops \X Ids |-> NoTask]
  /\ restarted = FALSE
  /\ killedAfterAnalyze = {}
  /\ endedWithSlot = {}
  /\ call = [id |-> 0, rec |-> "none", legacy |-> legacy]

\* The scheduler on a legacy file, with start(), stop() and kills.  There
\* are more slots than contracts to audit, so no task waits for a slot.
NextLegacy ==
  \/ Start
  \/ Stop
  \/ StepHeld
  \/ Killed

SpecLegacy ==
  /\ \E legacy \in SUBSET Ids \ {{}} : InitLegacy(legacy)
  /\ [][NextLegacy]_vars

\* ------------------------------------------------- files that do not parse
\* The store files whose content JSON.parse rejects; call.bad holds them.
StoreFiles == {"primary", "split"}

\* OpenAIAuditor.loadAuditedContracts on given files.  The whole body is in
\* one try block: the keys of the primary file, then of each split file, are
\* added to a new Set, and the catch block replaces the Set by an empty one.
\* A file that is missing adds nothing.
loadFiles(st, ov, bad) ==
  IF bad # {} THEN {}
  ELSE {i \in Ids : st[i] # "none" \/ i \in ov}

InitLoad ==
  /\ now = StartTime
  /\ sources = Ids
  /\ noMatch = {}
  /\ store \in [Ids -> Records]
  /\ overflow \in SUBSET Ids
  /\ auditedContracts = [a \in Slots |-> loadFiles(store, overflow, {})]
  /\ auditingContracts = [a \in Slots |-> {}]
  /\ poolAuditingContracts = {}
  /\ currentlyAuditing = <<>>
  /\ isAvailable = [a \in Slots |-> TRUE]
  /\ lastUsed = [a \in Slots |-> 0]
  /\ totalAudits = [a \in Slots |-> 0]
  /\ isRunning = FALSE
  /\ loopPc = [l \in Loops |-> "none"]
  /\ batch = [l \in Loops |-> <<>>]
  /\ task = [t \in Loops \X Ids |-> NoTask]
  /\ restarted = FALSE
  /\ killedAfterAnalyze = {}
  /\ endedWithSlot = {}
  /\ call = [id |-> 0, rec |-> "none", bad |-> {}, loaded |-> TRUE]

\* A store file is left with content that does not parse (a write cut short,
\* an edit by hand).
Damage(f) ==
  /\ f \notin call.bad
  /\ call' = [call EXCEPT !.bad = @ \cup {f}, !.loaded = FALSE]
  /\ UNCHANGED <<now, sources, noMatch, store, overflow, auditedContracts,
                 auditingContracts, poolAuditingContracts, currentlyAuditing,
                 isAvailable, lastUsed, totalAudits, isRunning, loopPc, batch,
                 task, restarted, killedAfterAnalyze, endedWithSlot>>

\* The process starts again: each auditor's constructor loads the files.
Construct ==
  /\ ~call.loaded
  /\ auditedContracts' =
       [a \in Slots |-> loadFiles(store, overflow, call.bad)]
  /\ call' = [call EXCEPT !.loaded = TRUE]
  /\ restarted' = TRUE
  /\ UNCHANGED <<now, sources, noMatch, store, overflow, auditingContracts,
                 poolAuditingContracts, currentlyAuditing, isAvailable,
                 lastUsed, totalAudits, isRunning, loopPc, batch, task,
                 killedAfterAnalyze, endedWithSlot>>

NextLoad ==
  \/ \E f \in StoreFiles : Damage(f)
  \/ Construct

SpecLoad == InitLoad /\ [][NextLoad]_vars

\* --------------------------------------------------------------- statistics
\* AuditStatistics keeps its counts in this.stats (here call.stats);
\* call.snapshot is the object getStats returned if getStats was the last
\* call, NoStats otherwise.
auditedContractsFile == "audited-contracts.json"

\* Mutation: the statistics are saved under the name of the store file.
statsFile_StoreFile == "audited-contracts.json"

\* AuditStatistics.statsFile.
statsFile == "audit-statistics.json"

NoStats ==
  [totalAudited |-> 0, withVulnerabilities |-> 0,
   withoutVulnerabilities |-> 0, failed |-> 0]

\* The counts rebuildFromAuditedContracts takes from audited-contracts.json:
\* the length of an array, or the number of keys of an object and the number
\* of its entries with failed === true, else hasVulnerabilities === true,
\* else hasVulnerabilities === false.
rebuildFromAuditedContracts(st) ==
  IF \E i \in Ids : st[i] = "legacy"
  THEN [NoStats EXCEPT
          !.totalAudited = Cardinality({i \in Ids : st[i] # "none"})]
  ELSE [totalAudited |-> Cardinality({i \in Ids : st[i] # "none"}),
        withVulnerabilities |-> Cardinality({i \in Ids : st[i] = "vuln"}),
        withoutVulnerabilities |->
          Cardinality({i \in Ids : st[i] \in {"clean", "migrated"}}),
        failed |-> Cardinality({i \in Ids : st[i] \in Failed})]

\* audited-contracts.json after saveStats wrote the statistics object to
\* statsFile: an object without any contract address if that is the same
\* file, the same content otherwise.
saveStats(st) ==
  IF statsFile = auditedContractsFile THEN [i \in Ids |-> "none"] ELSE st

\* getStats: the counts of this.stats (the rates derived from them are left
\* out); nothing is read from a file.
getStats(stats) == [stats EXCEPT !.failed = stats.failed]

InitStats ==
  /\ now = StartTime
  /\ sources = Ids
  /\ noMatch = {}
  /\ store = [i \in Ids |-> "none"]
  /\ overflow = {}
  /\ auditedContracts = [a \in Slots |-> loadAuditedContracts]
  /\ auditingContracts = [a \in Slots |-> {}]
  /\ poolAuditingContracts = {}
  /\ currentlyAuditing = <<>>
  /\ isAvailable = [a \in Slots |-> TRUE]
  /\ lastUsed = [a \in Slots |-> 0]
  /\ totalAudits = [a \in Slots |-> 0]
  /\ isRunning = FALSE
  /\ loopPc = [l \in Loops |-> "none"]
  /\ batch = [l \in Loops |-> <<>>]
  /\ task = [t \in Loops \X Ids |-> NoTask]
  /\ restarted = FALSE
  /\ killedAfterAnalyze = {}
  /\ endedWithSlot = {}
  /\ call = [id |-> 0, rec |-> "none",
             stats |-> rebuildFromAuditedContracts(store),
             snapshot |-> NoStats]

\* loadStats: the counts are rebuilt from audited-contracts.json and saved.
LoadStats ==
  /\ call' = [call EXCEPT !.stats = rebuildFromAuditedContracts(store),
                          !.snapshot = NoStats]
  /\ store' = saveStats(store)
  /\ UNCHANGED <<now, sources, noMatch, overflow, auditedContracts,
                 auditingContracts, poolAuditingContracts, currentlyAuditing,
                 isAvailable, lastUsed, totalAudits, isRunning, loopPc, batch,
                 task, restarted, killedAfterAnalyze, endedWithSlot>>

\* getStats, alone or from displayStats.
GetStats ==
  /\ call' = [call EXCEPT !.snapshot = getStats(call.stats)]
  /\ UNCHANGED <<now, sources, noMatch, store, overflow, auditedContracts,
                 auditingContracts, poolAuditingContracts, currentlyAuditing,
                 isAvailable, lastUsed, totalAudits, isRunning, loopPc, batch,
                 task, restarted, killedAfterAnalyze, endedWithSlot>>

\* The tail of an audit by auditor a: recordAuditResult, then the update of
\* the statistics, which is skipped because OpenAIAuditor never sets
\* this.statistics.
AuditRecords(a, i, rec) ==
  /\ Apply(recordAuditResult(Cur, a, i, rec, TRUE))
  /\ call' = [call EXCEPT !.snapshot = NoStats]
  /\ UNCHANGED <<now, noMatch, overflow, isRunning, batch, restarted>>

\* A tool outside the bot sets or removes the record of an id.
ExternalEdit(i, rec) ==
  /\ store[i] # rec
  /\ store' = [store EXCEPT ![i] = rec]
  /\ call' = [call EXCEPT !.snapshot = NoStats]
  /\ UNCHANGED <<now, sources, noMatch, overflow, auditedContracts,
                 auditingContracts, poolAuditingContracts, currentlyAuditing,
                 isAvailable, lastUsed, totalAudits, isRunning, loopPc, batch,
                 task, restarted, killedAfterAnalyze, endedWithSlot>>

\* The calls on the statistics, the audits of auditor 0 and the edits from
\* outside.
NextStats ==
  \/ LoadStats
  \/ GetStats
  \/ \E i \in Ids, rec \in Records \ {"none"} : AuditRecords(0, i, rec)
  \/ \E i \in Ids, rec \in Records : ExternalEdit(i, rec)

SpecStats == InitStats /\ [][NextStats]_vars

\* ------------------------------------------------- calls on the statistics
\* The methods of AuditStatistics called directly, on a data directory whose
\* audited-contracts.json is an object with any records or an array of ids
\* (no file when no id is in it).  call.stats is this.stats, which saveStats
\* copies to audit-statistics.json after every update.
DefaultStats ==
  [totalFetched |-> 0, totalAudited |-> 0, withVulnerabilities |-> 0,
   withoutVulnerabilities |-> 0, failed |-> 0]

\* loadStats on the statistics object read from audit-statistics.json, or on
\* the default one: without audited-contracts.json it is returned as it is,
\* else its four audit counters are replaced by the counts of the file.
loadStats(stats, st) ==
  IF \A i \in Ids : st[i] = "none" THEN stats
  ELSE LET counts == rebuildFromAuditedContracts(st)
       IN  [f \in DOMAIN stats |->
              IF f \in DOMAIN counts THEN counts[f] ELSE stats[f]]

\* pendingAudit of the object getStats returns.
pendingAudit(stats) == stats.totalFetched - stats.totalAudited

StoreContents ==
  [Ids -> Records] \cup ([Ids -> {"none", "legacy"}] \ {[i \in Ids |-> "none"]})

InitCounters ==
  /\ now = StartTime
  /\ sources = Ids
  /\ noMatch = {}
  /\ store \in StoreContents
  /\ overflow = {}
  /\ auditedContracts = [a \in Slots |-> loadAuditedContracts]
  /\ auditingContracts = [a \in Slots |-> {}]
  /\ poolAuditingContracts = {}
  /\ currentlyAuditing = <<>>
  /\ isAvailable = [a \in Slots |-> TRUE]
  /\ lastUsed = [a \in Slots |-> 0]
  /\ totalAudits = [a \in Slots |-> 0]
  /\ isRunning = FALSE
  /\ loopPc = [l \in Loops |-> "none"]
  /\ batch = [l \in Loops |-> <<>>]
  /\ task = [t \in Loops \X Ids |-> NoTask]
  /\ restarted = FALSE
  /\ killedAfterAnalyze = {}
  /\ endedWithSlot = {}
  /\ call = [id |-> 0, rec |-> "none", stats |-> loadStats(DefaultStats, store)]

\* A call on the statistics object that leaves this.stats equal to stats.
StatsBecome(stats) ==
  /\ call' = [call EXCEPT !.stats = stats]
  /\ UNCHANGED <<now, sources, noMatch, store, overflow, auditedContracts,
                 auditingContracts, poolAuditingContracts, currentlyAuditing,
                 isAvailable, lastUsed, totalAudits, isRunning, loopPc, batch,
                 task, restarted, killedAfterAnalyze, endedWithSlot>>

IncrementFetched ==
  /\ call.stats.totalFetched < MaxCount
  /\ StatsBecome([call.stats EXCEPT !.totalFetched = @ + 1])

RecordAudit(hasVulnerabilities) ==
  /\ call.stats.totalAudited < MaxCount
  /\ StatsBecome(IF hasVulnerabilities
                 THEN [call.stats EXCEPT !.totalAudited = @ + 1,
                                         !.withVulnerabilities = @ + 1]
                 ELSE [call.stats EXCEPT !.totalAudited = @ + 1,
                                         !.withoutVulnerabilities = @ + 1])

RecordAuditFailure ==
  /\ call.stats.totalAudited < MaxCount
  /\ StatsBecome([call.stats EXCEPT !.totalAudited = @ + 1, !.failed = @ + 1])

Reset == StatsBecome(DefaultStats)

\* A new AuditStatistics object on the same directory: loadStats on the
\* saved statistics.
Reload == StatsBecome(loadStats(call.stats, store))

NextCounters ==
  \/ IncrementFetched
  \/ \E hasVulnerabilities \in BOOLEAN : RecordAudit(hasVulnerabilities)
  \/ RecordAuditFailure
  \/ Reset
  \/ Reload

SpecCounters == InitCounters /\ [][NextCounters]_vars

\* ------------------------------------------------------ the contract tracker
\* ContractTracker keeps the detected addresses in the Set processedContracts
\* (a sequence in insertion order, call.processedContracts) and saves it to
\* processed-contracts.json (call.main) and, above MAX_FILE_SIZE, to
\* processed-contracts-k.json (call.split[k]).  Every address has the same
\* length, so the size of the JSON text is counted in addresses: MaxFileIds
\* addresses fill a file of MAX_FILE_SIZE bytes.
Addresses == 1..MaxAddresses

CeilDiv(a, b) == (a + b - 1) \div b

\* contracts.slice(from, from + size), with from counted from 0.
sliceFrom(contracts, from, size) ==
  SubSeq(contracts, from + 1, Min(from + size, Len(contracts)))

\* saveProcessedContracts: the files after the call, given the split files
\* that exist before it.
saveProcessedContracts(contracts, split) ==
  IF Len(contracts) > MaxFileIds
  THEN LET chunkSize ==
             CeilDiv(Len(contracts), CeilDiv(Len(contracts), MaxFileIds))
           chunks == CeilDiv(Len(contracts), chunkSize)
       IN  [main |-> sliceFrom(contracts, 0, chunkSize),
            split |-> [k \in 1..Max(chunks - 1, Len(split)) |->
                         IF k < chunks
                         THEN sliceFrom(contracts, k * chunkSize, chunkSize)
                         ELSE split[k]]]
  ELSE [main |-> contracts, split |-> split]

\* setAdd(seq, x): Set.add on a Set kept in insertion order.
setAdd(contracts, a) ==
  IF a \in Range(contracts) THEN contracts ELSE Append(contracts, a)

RECURSIVE setAddAll(_, _)
setAddAll(contracts, more) ==
  IF more = <<>> THEN contracts
  ELSE setAddAll(setAdd(contracts, Head(more)), Tail(more))

RECURSIVE loadSplit(_, _)
loadSplit(contracts, split) ==
  IF split = <<>> THEN contracts
  ELSE loadSplit(setAddAll(contracts, Head(split)), Tail(split))

\* loadProcessedContracts: the main file, then every split file.
loadProcessedContracts(main, split) == loadSplit(setAddAll(<<>>, main), split)

\* The list checkAndProcessContracts parses as its candidates: the content
\* of processed-contracts.json.
processedContractsOfTick(main) == main

InitTracker ==
  /\ now = StartTime
  /\ sources = Ids
  /\ noMatch = {}
  /\ store = [i \in Ids |-> "none"]
  /\ overflow = {}
  /\ auditedContracts = [a \in Slots |-> loadAuditedContracts]
  /\ auditingContracts = [a \in Slots |-> {}]
  /\ poolAuditingContracts = {}
  /\ currentlyAuditing = <<>>
  /\ isAvailable = [a \in Slots |-> TRUE]
  /\ lastUsed = [a \in Slots |-> 0]
  /\ totalAudits = [a \in Slots |-> 0]
  /\ isRunning = FALSE
  /\ loopPc = [l \in Loops |-> "none"]
  /\ batch = [l \in Loops |-> <<>>]
  /\ task = [t \in Loops \X Ids |-> NoTask]
  /\ restarted = FALSE
  /\ killedAfterAnalyze = {}
  /\ endedWithSlot = {}
  /\ call = [id |-> 0, rec |-> "none", processedContracts |-> <<>>,
             main |-> <<>>, split |-> <<>>]

\* markAsProcessed(a): add to the Set, save.
MarkAsProcessed(a) ==
  /\ LET contracts == setAdd(call.processedContracts, a)
         files == saveProcessedContracts(contracts, call.split)
     IN  call' = [call EXCEPT !.processedContracts = contracts,
                              !.main = files.main, !.split = files.split]
  /\ UNCHANGED <<now, sources, noMatch, store, overflow, auditedContracts,
                 auditingContracts, poolAuditingContracts, currentlyAuditing,
                 isAvailable, lastUsed, totalAudits, isRunning, loopPc, batch,
                 task, restarted, killedAfterAnalyze, endedWithSlot>>

\* The process starts again: the tracker's constructor loads the files.
LoadProcessedContracts ==
  /\ call' = [call EXCEPT !.processedContracts =
                             loadProcessedContracts(call.main, call.split)]
  /\ restarted' = TRUE
  /\ UNCHANGED <<now, sources, noMatch, store, overflow, auditedContracts,
                 auditingContracts, poolAuditingContracts, currentlyAuditing,
                 isAvailable, lastUsed, totalAudits, isRunning, loopPc, batch,
                 task, killedAfterAnalyze, endedWithSlot>>

NextTracker ==
  \/ \E a \in Addresses : MarkAsProcessed(a)
  \/ LoadProcessedContracts

SpecTracker == InitTracker /\ [][NextTracker]_vars

\* ------------------------------------------------- direct calls on the pool
\* getAvailableAuditor and releaseAuditor called directly on a pool whose
\* slots are in any state: never used or used at some earlier time, free or
\* held by a caller.
ClockValues == {StartTime + k * TimerStep : k \in 0..MaxClockSteps}

NoPoolCall ==
  [slot |-> NoSlot, eligible |-> {}, lastUsed |-> [a \in Slots |-> 0], at |-> 0]

InitPool ==
  /\ now \in ClockValues
  /\ isAvailable \in [Slots -> BOOLEAN]
  /\ lastUsed \in [Slots -> {0} \cup {t \in ClockValues : t <= now}]
  /\ \A a \in Slots : ~isAvailable[a] => lastUsed[a] > 0
  /\ totalAudits = [a \in Slots |-> 0]
  /\ sources = Ids
  /\ noMatch = {}
  /\ store = [i \in Ids |-> "none"]
  /\ overflow = {}
  /\ auditedContracts = [a \in Slots |-> {}]
  /\ auditingContracts = [a \in Slots |-> {}]
  /\ poolAuditingContracts = {}
  /\ currentlyAuditing = <<>>
  /\ isRunning = FALSE
  /\ loopPc = [l \in Loops |-> "none"]
  /\ batch = [l \in Loops |-> <<>>]
  /\ task = [t \in Loops \X Ids |-> NoTask]
  /\ restarted = FALSE
  /\ killedAfterAnalyze = {}
  /\ endedWithSlot = {}
  /\ call = NoPoolCall

\* A call of getAvailableAuditor that returns at once; call keeps the slot
\* it returned and what the pool looked like when it was called.
GetAuditor ==
  LET s == getAvailableAuditor(Cur)
  IN  /\ s # NoSlot
      /\ call' = [slot |-> s, eligible |-> {a \in Slots : Eligible(Cur, a)},
                  lastUsed |-> lastUsed, at |-> now]
      /\ Apply(acquire(Cur, s))
      /\ UNCHANGED <<now, noMatch, overflow, isRunning, batch, restarted>>

\* The holder of slot s calls releaseAuditor(s).
Release(s) ==
  /\ ~isAvailable[s]
  /\ Apply(releaseAuditor(Cur, s))
  /\ UNCHANGED <<now, noMatch, overflow, isRunning, batch, restarted, call>>

NextPool ==
  \/ GetAuditor
  \/ \E s \in Slots : Release(s)
  \/ ClockTick

SpecPool == InitPool /\ [][NextPool]_vars

\* Ids that auditors.find matches, and two that it does not.
SlotIds == Slots \cup {NoSlot, NumAuditors}

\* releaseAuditor(s) from any caller: the slot may be held or free, and the
\* id may be unknown.  Each slot is released at most MaxLoops times.
ReleaseAny(s) ==
  /\ s \in Slots => totalAudits[s] < MaxLoops
  /\ Apply(releaseAuditor(Cur, s))
  /\ UNCHANGED <<now, noMatch, overflow, isRunning, batch, restarted, call>>

NextRelease == \E s \in SlotIds : ReleaseAny(s)

SpecRelease == InitPool /\ [][NextRelease]_vars

\* ------------------------------------------------- a zero-latency stream
\* One auditLoop whose timers fire exactly when they are due, and requests
\* that return before any timer does: the loop launches an item every
\* staggerDelay and starts a tick checkInterval after the last task of the
\* previous tick has ended.
StreamEnd ==
  StartTime + MaxTicks * (checkInterval + (NumAuditors + 1) * staggerDelay)

Idle == \A t \in Loops \X Ids : task[t].pc = "none"

StreamStagger(l) ==
  /\ Idle
  /\ now' = now + staggerDelay
  /\ afterStagger(l, now + staggerDelay)

StreamSleep(l) ==
  /\ Idle
  /\ now + checkInterval <= StreamEnd
  /\ now' = now + checkInterval
  /\ afterSleep(l, now + checkInterval)

NextStream ==
  \/ Start
  \/ \E l \in Loops : StreamStagger(l)
  \/ \E l \in Loops : StreamSleep(l)
  \/ \E l \in Loops, i \in Ids : AnalyzeClean(l, i)
  \/ \E l \in Loops, i \in Ids : AnalyzeVuln(l, i)
  \/ \E l \in Loops, i \in Ids : AlertDone(l, i)
  \/ \E l \in Loops, i \in Ids, rec \in Failed : AnalyzeThrows(l, i, rec)

SpecStream == Init /\ [][NextStream]_vars

\* ----------------------------------------------------------------- fairness
\* Every OpenAI request and every Telegram request ends.
AnalyzeEnds(l, i) ==
  \/ AnalyzeClean(l, i)
  \/ AnalyzeVuln(l, i)
  \/ \E rec \in Failed : AnalyzeThrows(l, i, rec)

\* --------------------------------------------------- a stream without end
\* Date.now() and lastUsed are read only in getAvailableAuditor, through
\* now - lastUsed >= minDelayBetweenAudits and through the comparison of two
\* lastUsed values; totalAudits is only reported.  While the loop sleeps
\* checkInterval, which is not shorter than minDelayBetweenAudits, every slot
\* used so far gets old enough, so only the order of the lastUsed values
\* matters at the next tick.  The clock is then moved back to a fixed value,
\* the lastUsed values keep their order (0, never used, stays 0), and
\* totalAudits counts up to MaxTicks.
usedOrder(s) ==
  Cardinality({lastUsed[b] : b \in {c \in Slots : lastUsed[c] > 0
                                                  /\ lastUsed[c] < lastUsed[s]}})

CanonNow == StartTime + NumAuditors * staggerDelay

CanonLastUsed ==
  [s \in Slots |-> IF lastUsed[s] = 0 THEN 0
                   ELSE StartTime + usedOrder(s) * staggerDelay]

CanonAudits == [s \in Slots |-> Min(totalAudits[s], MaxTicks)]

Canonical ==
  /\ now = CanonNow
  /\ lastUsed = CanonLastUsed
  /\ totalAudits = CanonAudits

Rebase ==
  /\ Idle
  /\ \E l \in Loops : loopPc[l] = "sleeping"
  /\ \A l \in Loops : loopPc[l] \in {"none", "sleeping"}
  /\ ~Canonical
  /\ now' = CanonNow
  /\ lastUsed' = CanonLastUsed
  /\ totalAudits' = CanonAudits
  /\ UNCHANGED <<sources, noMatch, store, overflow, auditedContracts,
                 auditingContracts, poolAuditingContracts, currentlyAuditing,
                 isAvailable, isRunning, loopPc, batch, task, restarted,
                 killedAfterAnalyze, endedWithSlot, call>>

\* sleep(checkInterval) of loop l is over.
CycleSleep(l) == Canonical /\ StreamSleep(l)

NextCycle ==
  \/ Start
  \/ Rebase
  \/ \E l \in Loops : StreamStagger(l)
  \/ \E l \in Loops : CycleSleep(l)
  \/ \E l \in Loops, i \in Ids : AnalyzeEnds(l, i)
  \/ \E l \in Loops, i \in Ids : AlertDone(l, i)

\* One auditLoop that runs for ever: start() is called, every timer fires
\* and every pending request ends.
SpecCycle ==
  /\ Init
  /\ [][NextCycle]_vars
  /\ WF_vars(Start)
  /\ WF_vars(Rebase)
  /\ WF_vars(\E l \in Loops : StreamStagger(l))
  /\ WF_vars(\E l \in Loops : CycleSleep(l))
  /\ \A i \in Ids :
       /\ WF_vars(\E l \in Loops : AnalyzeEnds(l, i))
       /\ WF_vars(\E l \in Loops : AlertDone(l, i))

\* The scheduler while the process stays up, in the default configuration:
\* start() and stop() in any order, so that several auditLoop activations
\* run side by side.  Every contract that gets a slot gets a record, and
\* there are as many slots as contracts, so getAvailableAuditor always
\* finds a slot: NoTaskWaits is invariant and no retry step is enabled.
NextUp ==
  \/ Start
  \/ Stop
  \/ StepHeld

SpecUp == InitDefault /\ [][NextUp]_vars

\* The scheduler with start() and stop(), every analysis ending without
\* findings or with an error.
NextLock ==
  \/ Start
  \/ Stop
  \/ ClockTick
  \/ \E l \in Loops : StaggerWake(l)
  \/ \E l \in Loops : LoopWake(l)
  \/ \E l \in Loops, i \in Ids : AnalyzeClean(l, i)
  \/ \E l \in Loops, i \in Ids, rec \in Failed : AnalyzeThrows(l, i, rec)

SpecLock == InitDefault /\ [][NextLock]_vars

NoTaskWaits == \A t \in Loops \X Ids : task[t].pc # "waiting"

\* The scheduler started once after every construction, with kills.
NextRestart ==
  \/ Start
  \/ Step
  \/ Killed

SpecRestart == Init /\ [][NextRestart]_vars

\* The scheduler started once, the process stays up.
NextOnce ==
  \/ Start
  \/ Step

\* The pending OpenAI request and the pending Telegram request for a
\* contract end.
FairSpec ==
  /\ Init
  /\ [][NextOnce]_vars
  /\ \A i \in Ids :
       /\ WF_vars(\E l \in Loops : AnalyzeEnds(l, i))
       /\ WF_vars(\E l \in Loops : AlertDone(l, i))

\* start() is called only while no auditLoop activation is alive.
StartIdle == Start /\ FreeLoops = Loops

\* The scheduler in the default configuration with start() and stop(), no
\* start() while a loop stopped earlier is still winding down; the pending
\* requests end.
NextStop ==
  \/ StartIdle
  \/ Stop
  \/ StepHeld

SpecStop ==
  /\ InitDefault
  /\ [][NextStop]_vars
  /\ \A i \in Ids :
       /\ WF_vars(\E l \in Loops : AnalyzeEnds(l, i))
       /\ WF_vars(\E l \in Loops : AlertDone(l, i))

\* ------------------------------------------------------------------ claims
Tasks == Loops \X Ids
Active(t) == task[t].pc # "none"
HoldsSlot(t) == task[t].pc \in {"analyzing", "alerting"}
HasRecord(i) == store[i] # "none" \/ i \in overflow
LockedIds ==
  Range(currentlyAuditing) \cup poolAuditingContracts
    \cup UNION {auditingContracts[a] : a \in Slots}

\* C1: for every id at most one OpenAI request is in flight at any instant.
C1_AtMostOneAnalyze ==
  \A i \in Ids : Cardinality({l \in Loops : task[l, i].pc = "analyzing"}) <= 1

C1_Witness ==
  \E i \in Ids, l1 \in Loops, l2 \in Loops :
    /\ l1 # l2
    /\ task[l1, i].pc = "analyzing"
    /\ loopPc[l2] = "stagger"
    /\ i \in Range(batch[l2])

\* C2: after a restart every id with a record in the primary or in an
\* overflow file is audited for the pool, is in no batch a tick would
\* produce, and has no task.
C2_IdempotentRestart ==
  restarted =>
    \A i \in Ids :
      HasRecord(i) =>
        /\ poolIsAudited(Cur, i)
        /\ i \notin Range(contractsToAudit(Cur))
        /\ \A l \in Loops : ~Active(<<l, i>>)

C2_Witness ==
  /\ restarted
  /\ \E l \in Loops : loopPc[l] # "none"
  /\ \E i \in sources : store[i] # "none"
  /\ \E i \in sources : i \in overflow

\* C3: a successful record in the store is never replaced.
C3_SuccessIsFinal ==
  [][\A i \in Ids : store[i] \in Successful => store'[i] = store[i]]_vars

C3_Witness ==
  \E i \in Ids, l \in Loops :
    /\ store[i] \in Successful
    /\ loopPc[l] = "stagger"
    /\ i \in Range(batch[l])

\* C4: writing a failed record over a successful record leaves the store
\* unchanged.
C4_FailedWriteRejected ==
  [][(call'.id \in Ids /\ call'.rec \in Failed
        /\ store[call'.id] \in Successful) => store' = store]_vars

\* C5: an id whose record is a rate-limit failure is selected again by a
\* later discovery tick.
C5_RateLimitedIsRetried ==
  \A i \in Ids :
    (store[i] = "failed429" /\ i \in sources /\ i \notin LockedIds)
      => i \in Range(unauditedFiles(Cur))

\* C6: an id whose task was killed between the return of Analyze and the
\* record write has, after the restart, no record, no lock, and is selected
\* by the next discovery tick.
C6_KilledIsRedispatched ==
  \A i \in killedAfterAnalyze :
    /\ ~HasRecord(i)
    /\ i \notin LockedIds
    /\ i \in Range(unauditedFiles(Cur))

\* C7: once a task that acquired a slot has ended and its id is in no lock
\* set, the store holds a record for the id.
C7_EndedTaskHasRecord ==
  \A i \in endedWithSlot : i \notin LockedIds => HasRecord(i)

\* C8: a slot is busy and an id is locked only while a task holds it, and
\* a contract whose task holds a slot comes to have no running task,
\* whatever Analyze does.
C8_LocksOnlyForActive ==
  /\ \A i \in LockedIds : \E l \in Loops : Active(<<l, i>>)
  /\ \A s \in Slots : ~isAvailable[s] => \E t \in Tasks : task[t].slot = s
  /\ \A a \in Slots : \A i \in auditingContracts[a] :
       \E l \in Loops : task[l, i].slot = a

C8_NoLeak ==
  /\ []C8_LocksOnlyForActive
  /\ \A i \in Ids : (\E l \in Loops : HoldsSlot(<<l, i>>))
                        ~> (\A l \in Loops : ~Active(<<l, i>>))

C8_Witness ==
  \E t \in Tasks : ~Active(t) /\ t[2] \in endedWithSlot /\ store[t[2]] \in Failed
                   /\ t[2] \notin LockedIds

\* C9: between acquisition and release a slot is marked busy, so that no
\* other getAvailableAuditor call returns it: no slot is held by two tasks at
\* once.
C9_SlotExclusive ==
  /\ \A t \in Tasks : task[t].slot # NoSlot => ~isAvailable[task[t].slot]
  /\ \A t1 \in Tasks, t2 \in Tasks :
       (t1 # t2 /\ task[t1].slot # NoSlot) => task[t1].slot # task[t2].slot

C9_Witness ==
  \E t1 \in Tasks, t2 \in Tasks :
    t1 # t2 /\ HoldsSlot(t1) /\ HoldsSlot(t2)

\* C10: a slot is handed out only when it is free and minDelayBetweenAudits
\* has passed since its lastUsed; a caller that finds no such slot waits.
C10_AcquireRespectsDelay ==
  [][/\ \A s \in Slots :
          (lastUsed'[s] # lastUsed[s] /\ lastUsed'[s] # 0) =>
            /\ isAvailable[s]
            /\ lastUsed'[s] = now
            /\ now - lastUsed[s] >= minDelayBetweenAudits
     /\ \A t \in Tasks :
          (task'[t].slot # NoSlot /\ task[t].slot = NoSlot) =>
            /\ isAvailable[task'[t].slot]
            /\ now - lastUsed[task'[t].slot] >= minDelayBetweenAudits
     /\ \A t \in Tasks :
          (task'[t].pc = "waiting" /\ task[t].pc = "none") =>
            \A s \in Slots :
              ~(isAvailable[s] /\ now - lastUsed[s] >= minDelayBetweenAudits)
    ]_vars

C10_Witness ==
  /\ \E t \in Tasks : task[t].pc = "waiting"
  /\ \E s \in Slots : isAvailable[s] /\ lastUsed[s] > 0
                      /\ now - lastUsed[s] < minDelayBetweenAudits

\* C11: among the eligible slots getAvailableAuditor returns one with the
\* smallest lastUsed, whatever its place in the array, and sets its lastUsed
\* to the time of the call.
C11_LeastRecentlyUsed ==
  call.slot # NoSlot =>
    /\ call.slot \in call.eligible
    /\ \A a \in call.eligible : call.lastUsed[call.slot] <= call.lastUsed[a]
    /\ lastUsed[call.slot] = call.at

C11_Witness ==
  /\ call.slot # NoSlot
  /\ \E a \in call.eligible :
       a < call.slot /\ call.lastUsed[call.slot] < call.lastUsed[a]

\* C12: with zero-latency requests the slots are used in turn: the use
\* counts of two auditors never differ by more than one, and no task has to
\* wait for a slot.
C12_UseCountsBalanced ==
  /\ \A a \in Slots, b \in Slots : totalAudits[a] - totalAudits[b] <= 1
  /\ \A t \in Tasks : task[t].pc # "waiting"

C12_Witness ==
  /\ Idle
  /\ \A a \in Slots : totalAudits[a] >= 1
  /\ \E a \in Slots, b \in Slots : totalAudits[a] > totalAudits[b]

\* C13: an id whose record could not be written is not treated as audited:
\* once its task has ended, isAudited is false on every auditor, the id is in
\* no lock set, and a discovery tick selects it.
C13_WriteErrorNotTerminal ==
  \A i \in Ids :
    (call.id = i /\ store[i] = "none" /\ \A l \in Loops : ~Active(<<l, i>>))
      => /\ \A a \in Slots : ~isAudited(Cur, a, i)
         /\ i \notin LockedIds
         /\ i \in Range(unauditedFiles(Cur))

\* C14: a write that throws is attempted a second time, and the task's
\* result is an error result.
C14_WriteErrorSurfaced ==
  call.id # 0 => call.writes = 2 /\ call.result = "error"

\* C15: isAudited(id) is true exactly when the store holds a successful or a
\* non-retryable failed record of the id; it is false for an id without a
\* record, in flight or not, and for an id whose record is a rate-limit failure.
C15_IsAuditedIffTerminal ==
  \A a \in Slots, i \in Ids :
    isAudited(Cur, a, i) <=>
      (store[i] \in Successful \cup {"failedOther"} \/ InOverflow(i))

\* C16: a record that another process wrote after this instance loaded its
\* Set is found by isAudited through the files, and no request is sent for an
\* id that has a record: a task starts its analysis only while the files hold
\* no record of its id (and no task is left waiting for a slot).
C16_RecordedElsewhereNotDispatched ==
  /\ [][\A l \in Loops, i \in Ids :
          (task[l, i].pc # "analyzing" /\ task'[l, i].pc = "analyzing")
            => ~HasRecord(i)]_vars
  /\ [](\A i \in Ids : HasRecord(i) => \A a \in Slots : isAudited(Cur, a, i))
  /\ []NoTaskWaits

\* A contract whose source is still there has a failed record although no
\* slot of this instance was ever taken, so the other process wrote it; a
\* tick has run since, and auditor 0 has cached the id from the file.
C16_Witness ==
  \E i \in sources :
    /\ store[i] \in Failed
    /\ \A a \in Slots : isAvailable[a] /\ lastUsed[a] = 0
    /\ i \in auditedContracts[0]
    /\ \E l \in Loops : loopPc[l] = "sleeping"

C18_StepAfterStop ==
  (~isRunning /\ ~isRunning') =>
    /\ \A t \in Tasks : ~Active(t) => task'[t] = task[t]
    /\ \A k \in 1..Len(currentlyAuditing') :
         currentlyAuditing'[k] \in Range(currentlyAuditing)
    /\ \A l \in Loops :
         /\ loopPc'[l] = "stagger" => loopPc[l] = "stagger"
         /\ Len(batch'[l]) <= Len(batch[l])
    /\ \A t \in Tasks :
         (HoldsSlot(t) /\ task'[t].pc = "none") =>
           /\ store'[t[2]] # "none"
           /\ isAvailable'[task[t].slot]
           /\ t[2] \notin poolAuditingContracts'
           /\ t[2] \notin Range(currentlyAuditing')
           /\ \A a \in Slots : t[2] \notin auditingContracts'[a]

C18_StopDrains ==
  /\ [][C18_StepAfterStop]_vars
  /\ []NoTaskWaits
  /\ (~isRunning /\ \E t \in Tasks : Active(t)) ~> (\A t \in Tasks : ~Active(t))

\* Stopped and wound down: a contract of the batch was audited and recorded,
\* another one of the same batch was never launched.
C18_Witness ==
  /\ ~isRunning
  /\ \A l \in Loops : loopPc[l] = "none"
  /\ \A t \in Tasks : ~Active(t)
  /\ \E i \in Ids : store[i] # "none"
  /\ \E j \in Ids : j \in sources /\ store[j] = "none"

\* C19: every id that a tick selects has, at that moment, no record and is
\* not audited for the pool, and is in no lock set (currentlyAuditing, the
\* pool's set, an auditor's set); the batch a loop takes at its tick is that
\* selection, its head launched at once.
C19_SelectionEligible ==
  \A i \in Range(contractsToAudit(Cur)) :
    /\ ~poolIsAudited(Cur, i)
    /\ ~HasRecord(i)
    /\ i \notin LockedIds

C19_TickTakesSelection ==
  \A l \in Loops :
    (loopPc[l] # "stagger" /\ loopPc'[l] = "stagger") =>
      /\ contractsToAudit(Cur) # <<>>
      /\ batch'[l] = Tail(contractsToAudit(Cur))
      /\ task[l, Head(contractsToAudit(Cur))].pc = "none"
      /\ task'[l, Head(contractsToAudit(Cur))].pc = "analyzing"

C19_BatchEligible ==
  /\ []C19_SelectionEligible
  /\ [][C19_TickTakesSelection]_vars

\* A second loop has selected and launched a contract while the contract
\* that the first loop launched was still in flight.
C19_Witness ==
  \E l1 \in Loops, l2 \in Loops, i \in Ids, j \in Ids :
    /\ l1 < l2 /\ i < j
    /\ task[l1, i].pc = "analyzing"
    /\ task[l2, j].pc = "analyzing"
    /\ loopPc[l2] = "stagger"

C21_NoWorkLost ==
  \A i \in Ids :
    (i \in sources /\ ~HasRecord(i)) ~> (HasRecord(i) \/ i \notin sources)

\* C22: a step of the scheduler rewrites the record of at most one id and
\* drops no record, and a task that ends while it holds a slot leaves the
\* record of its id; so the records of tasks that end in any order are all
\* in the file.
C22_StepKeepsRecords ==
  /\ \A j \in Ids : store[j] # "none" => store'[j] # "none"
  /\ Cardinality({j \in Ids : store'[j] # store[j]}) <= 1
  /\ \A t \in Tasks :
       (HoldsSlot(t) /\ task'[t].pc = "none") => store'[t[2]] # "none"

C22_NoLostRecord == [][C22_StepKeepsRecords]_vars

\* Two contracts were in flight on different slots in the same run and both
\* have their record.
C22_Witness ==
  \E i \in Ids, j \in Ids, a \in Slots, b \in Slots :
    /\ i # j /\ a # b
    /\ {i, j} \subseteq endedWithSlot
    /\ store[i] # "none" /\ store[j] # "none"
    /\ i \in auditedContracts[a] /\ j \in auditedContracts[b]
    /\ lastUsed[a] = lastUsed[b]

\* C23: sendVulnerabilityAlert is invoked at most once for an id, over the
\* runs of the process with kills and restarts, and only for an id that has
\* no record yet.
C23_AlertAtMostOnce == alertedAgain = {}

\* C24: every id listed in a legacy array file is audited for every auditor
\* and is never selected nor launched; the file is an array or an object,
\* never a mix; and once a record was written, each legacy id has the entry
\* without findings that the migration gives it.  No task waits for a slot.
C24_LegacyTerminal ==
  /\ \A i \in call.legacy :
       /\ store[i] \in {"legacy", "migrated"}
       /\ \A a \in Slots : isAudited(Cur, a, i)
       /\ \A l \in Loops : ~Active(<<l, i>>) /\ i \notin Range(batch[l])
       /\ i \notin Range(contractsToAudit(Cur))
       /\ i \notin LockedIds
  /\ (\E j \in Ids : store[j] \notin {"none", "legacy"})
       => \A i \in Ids : store[i] # "legacy"
  /\ NoTaskWaits

\* A record of another contract was written, which migrated the file; the
\* legacy id has its entry and its source file is still there.
C24_Witness ==
  \E i \in call.legacy, j \in Ids \ call.legacy :
    /\ store[i] = "migrated"
    /\ store[j] \in Successful \cup Failed
    /\ i \in sources
    /\ restarted
    /\ isRunning


\* C25: after loadAuditedContracts, an id recorded in a store file that
\* parses is in the index, whatever the state of the other store file; with
\* no store file at all the index is empty.
C25_LoadKeepsWellFormed ==
  call.loaded =>
    \A a \in Slots :
      /\ \A i \in Ids :
           \/ (store[i] # "none" /\ "primary" \notin call.bad)
           \/ (i \in overflow /\ "split" \notin call.bad)
           => i \in auditedContracts[a]
      /\ ((\A i \in Ids : store[i] = "none") /\ overflow = {})
           => auditedContracts[a] = {}

\* C26: the snapshot getStats returns equals the counts of a scan of the
\* store at that time: total, successful with findings, successful without
\* findings, failed.
C26_SnapshotEqualsScan ==
  getStats(call.stats) = rebuildFromAuditedContracts(store)

\* C28: a step that computes statistics (loadStats with
\* rebuildFromAuditedContracts, getStats, displayStats) leaves the store
\* files as they were.
C28_StatsKeepStore ==
  [][(LoadStats \/ GetStats) => (store' = store /\ overflow' = overflow)]_vars

\* Statistics were rebuilt from, and returned for, a store that has records,
\* and the records are still there.
C28_Witness ==
  /\ call.stats.totalAudited = NumIds
  /\ call.snapshot = getStats(call.stats)
  /\ \A i \in Ids : store[i] # "none"

\* C27: releaseAuditor(s) sets isAvailable of slot s and adds one to its
\* totalAudits; lastUsed of every slot, the other slots' isAvailable and
\* totalAudits, the lock sets, the store and the task list are unchanged,
\* and with an id that no slot has nothing changes.
C27_ReleaseFrame ==
  [][\A s \in SlotIds :
       ReleaseAny(s) =>
         /\ lastUsed' = lastUsed
         /\ \A a \in Slots \ {s} :
              /\ isAvailable'[a] = isAvailable[a]
              /\ totalAudits'[a] = totalAudits[a]
         /\ s \in Slots =>
              /\ isAvailable'[s]
              /\ totalAudits'[s] = totalAudits[s] + 1
         /\ UNCHANGED <<poolAuditingContracts, auditedContracts,
                        auditingContracts, currentlyAuditing, store, sources,
                        task, loopPc>>]_vars

\* A slot that was used before has been released while another slot, also
\* used before, is still held.
C27_Witness ==
  \E s, a \in Slots :
    /\ a # s
    /\ isAvailable[s] /\ totalAudits[s] > 0 /\ lastUsed[s] > 0
    /\ ~isAvailable[a] /\ totalAudits[a] = 0 /\ lastUsed[a] > 0

\* C29: currentlyAuditing never has more entries than the pool has slots:
\* not while the loops and the tasks are suspended, and not when a loop, after
\* its stagger sleep, launches the next item of its batch and auditContract
\* has pushed the id.
C29_LaunchWithinPool ==
  [][/\ Len(currentlyAuditing) <= maxConcurrentAudits
     /\ \A l \in Loops :
          (StaggerWake(l) /\ batch[l] # <<>> /\ ~loopBreaks) =>
            Len(pushCurrentlyAuditing(Cur, Head(batch[l])).ca)
              <= maxConcurrentAudits]_vars

\* C30: when a loop launches an id that is in the pool's lock set, the lock
\* set, every task, every slot, the auditors' auditing sets and the store
\* stay as they are: no request is made for it; and an id leaves the lock
\* set only in a step in which the task that holds its lock ends.
C30_LockCheckAndSet ==
  [][/\ \A l \in Loops :
          (/\ loopPc[l] = "stagger"
           /\ batch[l] # <<>>
           /\ ~loopBreaks
           /\ batch'[l] = Tail(batch[l])
           /\ PoolLocked(Cur, Head(batch[l]))) =>
            /\ poolAuditingContracts' = poolAuditingContracts
            /\ task' = task
            /\ auditingContracts' = auditingContracts
            /\ isAvailable' = isAvailable
            /\ lastUsed' = lastUsed
            /\ store' = store
     /\ \A i \in poolAuditingContracts \ poolAuditingContracts' :
          \E l \in Loops : Active(<<l, i>>) /\ task'[l, i] = NoTask]_vars

\* A loop has launched the last id of its batch while the task of another
\* loop, launched after the batch was taken, held the lock of that id: the
\* task still runs, and the loop has the task of an earlier id only.
C30_Witness ==
  \E i \in Ids, l1 \in Loops, l2 \in Loops :
    /\ l1 # l2
    /\ task[l2, i].pc = "analyzing"
    /\ \A j \in Ids : j < i => task[l2, j].pc = "none"
    /\ task[l1, i].pc = "none"
    /\ \E j \in Ids : j < i /\ task[l1, j].pc = "analyzing"
    /\ loopPc[l1] = "stagger"
    /\ batch[l1] = <<>>
    /\ PoolLocked(Cur, i)
    /\ store[i] = "none"

\* C31: the step in which a task ends with an error changes no other task,
\* no other record, no batch and no other loop, and the loop that launched it
\* stays alive; a task that ends after that failure leaves its own record.
C31_FailureStep ==
  \A l \in Loops, i \in Ids :
    (task[l, i].pc = "analyzing" /\ task'[l, i] = NoTask
       /\ store'[i] \in Failed) =>
      /\ \A t \in Tasks \ {<<l, i>>} : task'[t] = task[t]
      /\ \A j \in Ids \ {i} : store'[j] = store[j]
      /\ batch' = batch
      /\ isRunning' = isRunning
      /\ \A k \in Loops \ {l} : loopPc'[k] = loopPc[k]
      /\ loopPc'[l] \in {loopPc[l], "sleeping"}

\* A task that ends after another id got its failed record leaves a record.
C31_StepAfterFailure ==
  \A l \in Loops, j \in Ids :
    (HoldsSlot(<<l, j>>) /\ task'[l, j] = NoTask
       /\ \E i \in Ids \ {j} : store[i] \in Failed) =>
      store'[j] \in Successful \cup Failed

C31_FailureIsolated == [][C31_FailureStep /\ C31_StepAfterFailure]_vars

\* A task of the running loop has ended with an error while the request of
\* another task of that loop is pending.
C31_Witness ==
  \E l \in Loops, i \in Ids, j \in Ids :
    /\ i # j
    /\ store[i] \in Failed
    /\ i \in endedWithSlot
    /\ task[l, i] = NoTask
    /\ task[l, j].pc = "analyzing"
    /\ loopPc[l] \in {"stagger", "awaiting"}

\* C32: an id whose source file has been deleted has a record in the store.
C32_DeletedHasRecord ==
  \A i \in Ids : i \notin sources => HasRecord(i)

\* C33: an id is analysed at most once when its analysis fails: a request is
\* sent only for an id without a record, a request that throws leaves a
\* failed record, a failed record is never removed, and an id with a failed
\* record is in no batch that a tick takes.
C33_StepBounded ==
  \A i \in Ids :
    /\ \A l \in Loops :
         /\ (task[l, i].pc # "analyzing" /\ task'[l, i].pc = "analyzing")
              => ~HasRecord(i)
         /\ (task[l, i].pc = "analyzing" /\ task'[l, i] = NoTask)
              => store'[i] \in Failed \cup {"clean"}
    /\ store[i] \in Failed =>
         /\ store'[i] # "none"
         /\ i \notin Range(contractsToAudit(Cur))

C34_TickSeesAllRecorded ==
  Range(call.processedContracts)
    \subseteq Range(processedContractsOfTick(call.main))

\* C35: AuditorPool.isAudited, which asks auditor 0, gives for every id the
\* answer that isAudited of each auditor of the pool gives.
C35_SharedAuditedState ==
  \A a \in Slots, i \in Ids : poolIsAudited(Cur, i) <=> isAudited(Cur, a, i)

\* C36: at most one auditLoop activation is alive at any time.
C36_OneLoop == Cardinality({l \in Loops : loopPc[l] # "none"}) <= 1

\* C37: a loop that sleeps until its next tick has no task left, and while
\* every loop is asleep or ended (a single loop is about to tick, or none is
\* alive) currentlyAuditing is empty and no task is active.
C37_TickAfterSettle ==
  /\ \A l \in Loops :
       loopPc[l] = "sleeping" => \A i \in Ids : ~Active(<<l, i>>)
  /\ (\A l \in Loops : loopPc[l] \in {"none", "sleeping"}) =>
       /\ currentlyAuditing = <<>>
       /\ \A t \in Tasks : ~Active(t)

\* The running loop sleeps before its next tick, after every task of its
\* batch of two has ended with a record.
C37_Witness ==
  /\ isRunning
  /\ \E l \in Loops : loopPc[l] = "sleeping"
  /\ \E i \in Ids, j \in Ids :
       /\ i # j
       /\ {i, j} \subseteq endedWithSlot
       /\ store[i] # "none" /\ store[j] # "none"
  /\ currentlyAuditing = <<>>

\* C38: the audit counters add up: totalAudited is the sum of
\* withVulnerabilities, withoutVulnerabilities and failed.
C38_CountersAddUp ==
  call.stats.totalAudited =
    call.stats.withVulnerabilities + call.stats.withoutVulnerabilities
      + call.stats.failed

\* C39: the pending count of getStats is not negative.
C39_PendingNotNegative == pendingAudit(getStats(call.stats)) >= 0

====
